---- MODULE Spec2Model ----
(***************************************************************************)
(* A model of generate.py: the per-route tab plan, the weekend bounds, the *)
(* publish gate, the publishing pipeline against the remote store, and the *)
(* script embedded in a route page.                                        *)
(*                                                                         *)
(* Dates are day ordinals counted from 2024-01-01 (a Monday), so that      *)
(* date.weekday() is ordinal % 7.  A formatted date ("%Y-%m-%d", or        *)
(* isoformat()) is the triple <<year, month, day>>.  Text is a sequence of *)
(* one-character strings.                                                  *)
(***************************************************************************)
EXTENDS Integers, Sequences, FiniteSets, TLC

VARIABLES
    fn,        \* SpecPlan: a call of open_plan_for_route / weekend_bounds_encoded
    gate,      \* SpecGate: a call of already_succeeded_today
    page,      \* SpecPage: the browser's state of one route page
    clock,     \* Spec: the Europe/London date (a day ordinal)
    remote,    \* Spec: the remote store (refs, trees, commits, routes.txt)
    procs,     \* Spec: the runs of generate.py, one record per process
    started    \* Spec: the number of runs started so far

vars == <<fn, gate, page, clock, remote, procs, started>>

None == "None"

----------------------------------------------------------------------------
(* Calendar: datetime.date, timedelta, strftime("%Y-%m-%d"), isoformat()   *)

EpochYear == 2024

IsLeap(y) == (y % 4 = 0 /\ y % 100 # 0) \/ y % 400 = 0

DaysInYear(y) == IF IsLeap(y) THEN 366 ELSE 365

DaysInMonth(y, m) ==
    IF m = 2 THEN (IF IsLeap(y) THEN 29 ELSE 28)
    ELSE IF m \in {4, 6, 9, 11} THEN 30 ELSE 31

RECURSIVE YMDFrom(_, _, _)
YMDFrom(y, m, n) ==
    IF n >= DaysInYear(y) /\ m = 1 THEN YMDFrom(y + 1, 1, n - DaysInYear(y))
    ELSE IF n >= DaysInMonth(y, m) THEN YMDFrom(y, m + 1, n - DaysInMonth(y, m))
    ELSE <<y, m, n + 1>>

\* day.strftime("%Y-%m-%d") and date.isoformat()
FormatDate(day) == YMDFrom(EpochYear, 1, day)

\* date.weekday(): Monday = 0 .. Sunday = 6
Weekday(day) == day % 7

----------------------------------------------------------------------------
(* Helpers                                                                 *)

SafeChars ==
    { "a", "b", "c", "d", "e", "f", "g", "h", "i", "j", "k", "l", "m",
      "n", "o", "p", "q", "r", "s", "t", "u", "v", "w", "x", "y", "z",
      "A", "B", "C", "D", "E", "F", "G", "H", "I", "J", "K", "L", "M",
      "N", "O", "P", "Q", "R", "S", "T", "U", "V", "W", "X", "Y", "Z",
      "0", "1", "2", "3", "4", "5", "6", "7", "8", "9", ".", "_", "-" }

\* re.sub(r"[^A-Za-z0-9._-]+", "_", s): every maximal run of other
\* characters becomes one "_"
RECURSIVE SafeFrom(_, _)
SafeFrom(s, inRun) ==
    IF s = <<>> THEN <<>>
    ELSE IF Head(s) \in SafeChars THEN <<Head(s)>> \o SafeFrom(Tail(s), FALSE)
    ELSE IF inRun THEN SafeFrom(Tail(s), TRUE)
    ELSE <<"_">> \o SafeFrom(Tail(s), TRUE)

safe_name(s) == SafeFrom(s, FALSE)

Whitespace == { " ", "\t", "\r" }

RECURSIVE LStrip(_)
LStrip(s) ==
    IF s # <<>> /\ Head(s) \in Whitespace THEN LStrip(Tail(s)) ELSE s

RECURSIVE RStrip(_)
RStrip(s) ==
    IF s # <<>> /\ s[Len(s)] \in Whitespace
    THEN RStrip(SubSeq(s, 1, Len(s) - 1)) ELSE s

\* str.strip()
Strip(s) == RStrip(LStrip(s))

url_for(route, direction) ==
    [ input |-> Strip(route), lineIds |-> Strip(route), direction |-> direction,
      dateTypeSelect |-> None, startDate |-> None, endDate |-> None ]

day_bounds_encoded(day) ==
    << [date |-> FormatDate(day), time |-> "T00%3A00%3A00"],
       [date |-> FormatDate(day), time |-> "T23%3A59%3A59"] >>

\* weekend_bounds_encoded with the offset 5 - wd not reduced modulo 7
weekend_bounds_encoded_NoModulo(today) ==
    LET wd == Weekday(today)
        offset_to_sat == 5 - wd
        sat == today + offset_to_sat
        sun == sat + 1
    IN  << day_bounds_encoded(sat)[1], day_bounds_encoded(sun)[2] >>

weekend_bounds_encoded(today) ==
    LET wd == Weekday(today)
        offset_to_sat == (5 - wd) % 7
        sat == today + offset_to_sat
        sun == sat + 1
    IN  << day_bounds_encoded(sat)[1], day_bounds_encoded(sun)[2] >>

----------------------------------------------------------------------------
(* open_plan_for_route                                                     *)

BaseDelay == 200
DayStep == 350
OutboundLag == 60
WeekendGap == 200

PlanEntry(label, url, delay) == [label |-> label, url |-> url, delay |-> delay]

Dated(url, selector, s, e) ==
    [url EXCEPT !.dateTypeSelect = selector, !.startDate = s, !.endDate = e]

\* DayEntries without base_delay
DayEntries_NoBaseDelay(base_in, base_out, start_date, i) ==
    LET d == start_date + i
        b == day_bounds_encoded(d)
        delay == i * DayStep
    IN  << PlanEntry(<<FormatDate(d), "inbound">>,
                     Dated(base_in, "Future%20date", b[1], b[2]), delay),
           PlanEntry(<<FormatDate(d), "outbound">>,
                     Dated(base_out, "Future%20date", b[1], b[2]),
                     delay + OutboundLag) >>

\* the two entries of day i of the window (the loop body, lines 145-152)
DayEntries(base_in, base_out, start_date, i) ==
    LET d == start_date + i
        b == day_bounds_encoded(d)
        delay == BaseDelay + i * DayStep
    IN  << PlanEntry(<<FormatDate(d), "inbound">>,
                     Dated(base_in, "Future%20date", b[1], b[2]), delay),
           PlanEntry(<<FormatDate(d), "outbound">>,
                     Dated(base_out, "Future%20date", b[1], b[2]),
                     delay + OutboundLag) >>

RECURSIVE DaysLoop(_, _, _, _, _)
DaysLoop(base_in, base_out, start_date, i, n) ==
    IF i >= n THEN <<>>
    ELSE DayEntries(base_in, base_out, start_date, i)
         \o DaysLoop(base_in, base_out, start_date, i + 1, n)

\* open_plan_for_route over range(day_count): the window without its last day
open_plan_for_route_ExclusiveEnd(route, start_date, end_date, today_for_weekend) ==
    LET base_in == url_for(route, "inbound")
        base_out == url_for(route, "outbound")
        day_count == end_date - start_date
        nDays == IF day_count > 0 THEN day_count ELSE 0
        wk == weekend_bounds_encoded(today_for_weekend)
        wk_delay == BaseDelay + nDays * DayStep + WeekendGap
    IN  << PlanEntry(<<"Now", "inbound">>, base_in, 0),
           PlanEntry(<<"Now", "outbound">>, base_out, OutboundLag) >>
        \o DaysLoop(base_in, base_out, start_date, 0, nDays)
        \o << PlanEntry(<<"This weekend", "inbound">>,
                        Dated(base_in, "This%20weekend", wk[1], wk[2]), wk_delay),
              PlanEntry(<<"This weekend", "outbound">>,
                        Dated(base_out, "This%20weekend", wk[1], wk[2]),
                        wk_delay + OutboundLag) >>

open_plan_for_route(route, start_date, end_date, today_for_weekend) ==
    LET base_in == url_for(route, "inbound")
        base_out == url_for(route, "outbound")
        day_count == end_date - start_date
        \* len(days), days = [... for i in range(day_count + 1)]
        nDays == IF day_count + 1 > 0 THEN day_count + 1 ELSE 0
        wk == weekend_bounds_encoded(today_for_weekend)
        wk_delay == BaseDelay + nDays * DayStep + WeekendGap
    IN  << PlanEntry(<<"Now", "inbound">>, base_in, 0),
           PlanEntry(<<"Now", "outbound">>, base_out, OutboundLag) >>
        \o DaysLoop(base_in, base_out, start_date, 0, nDays)
        \o << PlanEntry(<<"This weekend", "inbound">>,
                        Dated(base_in, "This%20weekend", wk[1], wk[2]), wk_delay),
              PlanEntry(<<"This weekend", "outbound">>,
                        Dated(base_out, "This%20weekend", wk[1], wk[2]),
                        wk_delay + OutboundLag) >>

----------------------------------------------------------------------------
(* The publish gate: london_today_iso, already_succeeded_today,            *)
(* success_state_payload                                                   *)

\* datetime.now(TZ).date().isoformat(), the clock reading `now`
london_today_iso(now) == FormatDate(now)

\* A response of requests.get: kind "exception" when the call raises
\* (connection error, timeout), else kind "http" with a status code and a
\* body.  A body is [json, date, status]: json is "invalid" (r.json()
\* raises), "list" (a JSON value that is no object) or "object", whose date
\* and status read <<>> and None when the key is missing.
Returned(v) == [raised |-> FALSE, value |-> v]
Raised == [raised |-> TRUE, value |-> FALSE]

\* the try block (lines 101-106)
GateTry(r, now) ==
    IF r.kind = "exception" THEN Raised               \* requests.get raised
    ELSE IF r.status_code = 404 THEN Returned(FALSE)
    ELSE IF r.status_code >= 400 THEN Raised          \* raise_for_status()
    ELSE IF r.body.json = "invalid" THEN Raised       \* r.json()
    ELSE IF r.body.json # "object" THEN Raised        \* data.get on a non-dict
    ELSE Returned(r.body.date = london_today_iso(now) /\ r.body.status = "success")

\* already_succeeded_today without its except clause
already_succeeded_today_NoExcept(r, now) == GateTry(r, now)

already_succeeded_today(r, now) ==
    LET res == GateTry(r, now)
    IN  IF res.raised THEN Returned(FALSE) ELSE res

success_state_payload(range_hint, now) ==
    [ date |-> london_today_iso(now), status |-> "success", range |-> range_hint,
      updated_at |-> FormatDate(now) ]      \* the date part of the timestamp

----------------------------------------------------------------------------
(* SpecPlan: the schedule builder and the weekend bounds as pure functions *)
(* of a route, a window [start, end] and a reference day                   *)

PlanFirstDay == 150      \* 2024-05-30
PlanYearEndDay == 361    \* 2024-12-27
MaxStartOffset == 7
MaxWindowDays == 3

PlanRoutes == { <<"2", "4">>, <<"S", "L", "1", "0">> }

PlanDays == (PlanFirstDay .. PlanFirstDay + MaxStartOffset)
            \cup (PlanYearEndDay .. PlanYearEndDay + MaxStartOffset)

\* the value of a variable that a specification does not use
Off == [op |-> "off"]

MainIdle == clock = 0 /\ remote = Off /\ procs = Off /\ started = 0

InitPlan ==
    /\ fn \in [ op : {"idle"}, route : PlanRoutes, start : PlanDays,
                len : 0 .. MaxWindowDays, today : PlanDays, result : {None} ]
    /\ gate = Off
    /\ page = Off
    /\ MainIdle

CallOpenPlan ==
    /\ fn.op = "idle"
    /\ fn' = [fn EXCEPT !.op = "open_plan_for_route",
                        !.result = open_plan_for_route(fn.route, fn.start,
                                                       fn.start + fn.len, fn.today)]
    /\ UNCHANGED <<gate, page, clock, remote, procs, started>>

CallWeekendBounds ==
    /\ fn.op = "idle"
    /\ fn' = [fn EXCEPT !.op = "weekend_bounds_encoded",
                        !.result = weekend_bounds_encoded(fn.today)]
    /\ UNCHANGED <<gate, page, clock, remote, procs, started>>

NextPlan == CallOpenPlan \/ CallWeekendBounds

SpecPlan == InitPlan /\ [][NextPlan]_vars

\* the day ordinal a formatted date stands for (date.fromisoformat)
RECURSIVE DaysBefore(_, _, _)
DaysBefore(y, m, acc) ==
    IF y > EpochYear THEN DaysBefore(y - 1, m, acc + DaysInYear(y - 1))
    ELSE IF m > 1 THEN DaysBefore(y, m - 1, acc + DaysInMonth(y, m - 1))
    ELSE acc

ParseDate(ymd) ==
    LET pre == DaysBefore(ymd[1], 1, 0)
        inYear == DaysBefore(EpochYear, ymd[2], 0)
                  + (IF ymd[2] > 2 /\ IsLeap(ymd[1]) /\ ~IsLeap(EpochYear) THEN 1
                     ELSE IF ymd[2] > 2 /\ ~IsLeap(ymd[1]) /\ IsLeap(EpochYear) THEN -1
                     ELSE 0)
    IN  pre + inYear + ymd[3] - 1

\* a marker's date field names the day `day` (a missing date names none)
ParseDateIs(ymd, day) == Len(ymd) = 3 /\ ParseDate(ymd) = day

PlanBuilt == fn.op = "open_plan_for_route"

\* C1: for every route and window with start <= end the plan has exactly
\* 2 + 2*dayCount + 2 entries (dayCount = end - start + 1): Now inbound, Now
\* outbound, then per day in ascending date order that day's inbound and
\* outbound entry, then This weekend inbound, This weekend outbound.
C1_PlanShape ==
    PlanBuilt =>
        LET plan == fn.result
            dayCount == fn.len + 1
            n == Len(plan)
        IN  /\ n = 2 + 2 * dayCount + 2
            /\ plan[1].label = <<"Now", "inbound">>
            /\ plan[2].label = <<"Now", "outbound">>
            /\ plan[1].url.dateTypeSelect = None
            /\ plan[2].url.dateTypeSelect = None
            /\ \A i \in 0 .. dayCount - 1 :
                  LET a == plan[3 + 2 * i]
                      b == plan[4 + 2 * i]
                  IN  /\ a.label[2] = "inbound" /\ b.label[2] = "outbound"
                      /\ ParseDate(a.label[1]) = fn.start + i
                      /\ b.label[1] = a.label[1]
                      /\ a.url.dateTypeSelect = "Future%20date"
                      /\ b.url.dateTypeSelect = "Future%20date"
                      /\ a.url.startDate.date = a.label[1]
                      /\ a.url.endDate.date = a.label[1]
                      /\ b.url.startDate.date = a.label[1]
                      /\ b.url.endDate.date = a.label[1]
            /\ ParseDate(plan[n - 2].label[1]) = fn.start + fn.len
            /\ plan[n - 1].label = <<"This weekend", "inbound">>
            /\ plan[n].label = <<"This weekend", "outbound">>
            /\ \A k \in 1 .. n :
                  plan[k].url.direction = (IF k % 2 = 1 THEN "inbound" ELSE "outbound")

\* the spec's example: 2024-06-01 .. 2024-06-03 gives 10 entries
C1_Witness ==
    /\ PlanBuilt
    /\ FormatDate(fn.start) = <<2024, 6, 1>>
    /\ fn.len = 2
    /\ Len(fn.result) = 10
    /\ fn.result[7].label = <<<<2024, 6, 3>>, "inbound">>

\* C2: the delays are non-decreasing along the plan (Now 0 and 60; day i
\* inbound 200 + 350*i and outbound 60 more; weekend inbound
\* 200 + 350*dayCount + 200 and outbound 60 more), and each day's inbound
\* delay is exactly 350 ms more than the previous day's.
C2_Delays ==
    PlanBuilt =>
        LET plan == fn.result
            dayCount == fn.len + 1
            n == Len(plan)
        IN  /\ \A k \in 1 .. n - 1 : plan[k].delay <= plan[k + 1].delay
            /\ plan[1].delay = 0 /\ plan[2].delay = 60
            /\ \A k \in 3 .. n - 2 :
                  plan[k].delay = 200 + 350 * ((k - 3) \div 2) + 60 * ((k - 3) % 2)
            /\ \A k \in 3 .. n - 4 :
                  k % 2 = 1 => plan[k + 2].delay - plan[k].delay = 350
            /\ plan[n - 1].delay = 200 + 350 * dayCount + 200
            /\ plan[n].delay = plan[n - 1].delay + 60

C2_Witness ==
    /\ PlanBuilt
    /\ fn.len = 3
    /\ fn.result[3].delay = 200 /\ fn.result[4].delay = 260
    /\ fn.result[5].delay = 550 /\ fn.result[9].delay = 200 + 3 * 350
    /\ fn.result[11].delay = 1800

WeekendComputed == fn.op = "weekend_bounds_encoded"

\* C8: the weekend starts on the Saturday at offset (5 - weekday) mod 7 from
\* the reference day and ends the day after: a Saturday yields itself, a
\* Sunday the Saturday 6 days later, and the start is never before the
\* reference day.
C8_Weekend ==
    WeekendComputed =>
        LET sat == ParseDate(fn.result[1].date)
            sun == ParseDate(fn.result[2].date)
        IN  /\ Weekday(sat) = 5
            /\ sat = fn.today + ((5 - Weekday(fn.today)) % 7)
            /\ sun = sat + 1
            /\ sat >= fn.today /\ sat - fn.today <= 6
            /\ (Weekday(fn.today) = 5 => sat = fn.today)
            /\ (Weekday(fn.today) = 6 => sat = fn.today + 6)
            /\ fn.result[1].time = "T00%3A00%3A00"
            /\ fn.result[2].time = "T23%3A59%3A59"

\* a Sunday reference day: 2024-06-02 gives 2024-06-08 .. 2024-06-09
C8_Witness ==
    /\ WeekendComputed
    /\ FormatDate(fn.today) = <<2024, 6, 2>>
    /\ fn.result[1].date = <<2024, 6, 8>>
    /\ fn.result[2].date = <<2024, 6, 9>>

----------------------------------------------------------------------------
(* SpecGate: already_succeeded_today over every kind of response           *)

GateFirstDay == 151      \* 2024-05-31
MaxGateDays == 2

GateDays == GateFirstDay .. GateFirstDay + MaxGateDays

StatusCodes == {200, 403, 404, 500}

NoBody == [json |-> "invalid", date |-> <<>>, status |-> None]

Bodies ==
    { NoBody, [NoBody EXCEPT !.json = "list"] }
    \cup [ json : {"object"},
           date : {FormatDate(d) : d \in GateDays} \cup {<<>>},
           status : {"success", "failed", None} ]

Responses ==
    { [kind |-> "exception", status_code |-> 0, body |-> NoBody] }
    \cup [ kind : {"http"}, status_code : StatusCodes, body : Bodies ]

InitGate ==
    /\ gate \in [ op : {"idle"}, response : Responses, now : GateDays,
                  result : {Returned(FALSE)} ]
    /\ fn = Off
    /\ page = Off
    /\ MainIdle

CallGate ==
    /\ gate.op = "idle"
    /\ gate' = [gate EXCEPT !.op = "already_succeeded_today",
                            !.result = already_succeeded_today(gate.response, gate.now)]
    /\ UNCHANGED <<fn, page, clock, remote, procs, started>>

NextGate == CallGate

SpecGate == InitGate /\ [][NextGate]_vars

GateCalled == gate.op = "already_succeeded_today"

\* the marker was fetched and parsed: a 2xx response whose body is an object
FetchedAndParsed(r) ==
    r.kind = "http" /\ r.status_code \in 200 .. 299 /\ r.body.json = "object"

\* C4: already_succeeded_today returns true only when the marker was fetched
\* and parsed, its date is today's Europe/London ISO date and its status is
\* "success"; it returns false when the marker is absent, on another date,
\* of another status, and on any fetch or parse failure, never raising.
C4_Gate ==
    GateCalled =>
        LET r == gate.response
        IN  /\ ~gate.result.raised
            /\ gate.result.value =
                 ( /\ FetchedAndParsed(r)
                   /\ ParseDateIs(r.body.date, gate.now)
                   /\ r.body.status = "success" )

C4_Witness ==
    /\ GateCalled
    /\ gate.response.kind = "exception"
    /\ gate.result = Returned(FALSE)

----------------------------------------------------------------------------
(* SpecPage: the script embedded in a route page (html_for_route), run by  *)
(* a browser.  Timers fire in the order of their due time, and timers due  *)
(* at the same time in the order they were set.  A timer is               *)
(* [idx, rem, id]: the plan index it opens (0-based), the time left until  *)
(* it is due, and the id setTimeout returned.                              *)

PageWindowLen == 0
MaxClicks == 2
TimeStep == 50

PageRoute == <<"2", "4">>

Max(a, b) == IF a >= b THEN a ELSE b

\* delays[i] || 0 for the 0-based index i
DelayOr0(delays, i) == IF i + 1 \in DOMAIN delays THEN delays[i + 1] ELSE 0

\* scheduleFrom(startIdx, t0Delay): the timers it sets, ids from nextId on
scheduleFrom(delays, startIdx, t0Delay, nextId) ==
    { [ idx |-> i, rem |-> Max(0, DelayOr0(delays, i) - t0Delay),
        id |-> nextId + (i - startIdx) ] : i \in startIdx .. Len(delays) - 1 }

\* clearSchedule that cancels nothing
clearSchedule_Keep(pending, timeouts) == pending

\* clearSchedule(): clearTimeout on every id of `timeouts`
clearSchedule(pending, timeouts) == { t \in pending : t.id \notin timeouts }

\* showFallback(): clears the schedule, shows the box and installs the
\* click handler of "Open all tabs"
showFallback(pg, idx) ==
    [pg EXCEPT !.pending = clearSchedule(pg.pending, pg.timeouts),
               !.timeouts = {},
               !.shown = TRUE,
               !.last = "blocked",
               !.blockedAt = IF pg.blockedAt = -1 THEN idx ELSE pg.blockedAt]

\* window.open(urls[idx]) returned a window
Opened(pg, idx) == [pg EXCEPT !.opens[idx] = @ + 1]

\* the tail shared by window.onload and the click handler:
\* scheduleFrom(1, delays[1] || 0)
ScheduleRest(pg) ==
    LET new == scheduleFrom(pg.delays, 1, DelayOr0(pg.delays, 1), pg.nextId)
    IN  [pg EXCEPT !.pending = @ \cup new,
                   !.timeouts = @ \cup {t.id : t \in new},
                   !.nextId = @ + Cardinality(new)]

PlanDelays(plan) == [k \in 1 .. Len(plan) |-> plan[k].delay]

InitPage ==
    /\ \E allowed \in BOOLEAN :
         LET start == PlanFirstDay
             plan == open_plan_for_route(PageRoute, start, start + PageWindowLen, start)
         IN  page = [ op |-> "page",
                      delays |-> PlanDelays(plan),
                      allowed |-> allowed,
                      loaded |-> FALSE,
                      shown |-> FALSE,
                      pending |-> {},
                      timeouts |-> {},
                      nextId |-> 1,
                      opens |-> [i \in 0 .. Len(plan) - 1 |-> 0],
                      loadOK |-> FALSE,
                      clicks |-> 0,
                      clicksOK |-> 0,
                      blockedAt |-> -1,
                      last |-> "none" ]
    /\ fn = Off
    /\ gate = Off
    /\ MainIdle

PageRest == <<fn, gate, clock, remote, procs, started>>

\* the user allows pop-ups for the site, or the browser starts blocking them
SetPopups ==
    /\ page' = [page EXCEPT !.allowed = ~@, !.last = "popups"]
    /\ UNCHANGED PageRest

\* window.onload
OnLoad ==
    /\ ~page.loaded
    /\ LET pg == [page EXCEPT !.loaded = TRUE, !.last = "load"]
       IN  page' = IF ~pg.allowed THEN showFallback(pg, 0)
                   ELSE ScheduleRest([Opened(pg, 0) EXCEPT !.loadOK = TRUE])
    /\ UNCHANGED PageRest

\* the next timer to fire: the least due time, then the least id
IsNext(t, pending) ==
    \A u \in pending : t.rem < u.rem \/ (t.rem = u.rem /\ t.id <= u.id)

Elapse(pending, dt) == { [u EXCEPT !.rem = @ - dt] : u \in pending }

\* the callback of one timer of scheduleFrom
TimerFires ==
    /\ \E t \in page.pending :
         /\ IsNext(t, page.pending)
         /\ LET pg == [page EXCEPT !.pending = Elapse(page.pending \ {t}, Max(0, t.rem)),
                                   !.last = "timer"]
            IN  page' = IF pg.allowed THEN Opened(pg, t.idx)
                        ELSE showFallback(pg, t.idx)
    /\ UNCHANGED PageRest

\* time passes without any timer becoming overdue
TimePasses ==
    /\ page.pending # {}
    /\ \A t \in page.pending : t.rem >= TimeStep
    /\ page' = [page EXCEPT !.pending = Elapse(page.pending, TimeStep),
                            !.last = "time"]
    /\ UNCHANGED PageRest

\* a click on "Open all tabs" (the handler installed by showFallback)
ClickOpenAll ==
    /\ page.shown
    /\ page.clicks < MaxClicks
    /\ LET pg == [page EXCEPT !.clicks = @ + 1, !.last = "click"]
       IN  page' = IF ~pg.allowed THEN pg
                   ELSE ScheduleRest([Opened(pg, 0) EXCEPT !.clicksOK = @ + 1])
    /\ UNCHANGED PageRest

NextPage == SetPopups \/ OnLoad \/ TimerFires \/ TimePasses \/ ClickOpenAll

SpecPage == InitPage /\ [][NextPage]_vars

PageOn == page.op = "page"

\* the passes over the plan: the page load, if its first open succeeded,
\* and every click whose permission test succeeded
Passes == (IF page.loadOK THEN 1 ELSE 0) + page.clicksOK

LastIdx == Len(page.delays) - 1

\* C9 as stated: with one click on the fallback action no plan entry is
\* opened more than once, whatever the entry at which opening was blocked
C9_Original ==
    (PageOn /\ page.clicksOK <= 1) => \A i \in 0 .. LastIdx : page.opens[i] <= 1

\* C9, amended: entries are opened in plan index order; when opening is
\* blocked the pending timers are cancelled; a click on the fallback action
\* with pop-ups allowed opens entry 0 again and schedules entries 1..n-1 (the
\* whole plan, not the remaining entries), so an entry is opened at most once
\* per pass (the load and each successful click); no entry is opened more
\* than once when opening was blocked at entry 0 and one click was made.
C9_Replay ==
    PageOn =>
        /\ \A i \in 0 .. LastIdx : page.opens[i] <= Passes
        /\ page.opens[0] = Passes
        /\ \A i \in 0 .. LastIdx - 1 : page.opens[i] >= page.opens[i + 1]
        /\ (page.last = "blocked" => page.pending = {})
        /\ (page.blockedAt = 0 /\ page.clicksOK <= 1
              => \A i \in 0 .. LastIdx : page.opens[i] <= 1)
        /\ (page.pending = {} /\ page.clicksOK >= 1 /\ page.last = "timer"
              => \A i \in 0 .. LastIdx : page.opens[i] >= 1)

\* blocked after entries 0 and 1, then one click: entries 0 and 1 are opened
\* twice, the others once
C9_Witness ==
    /\ PageOn
    /\ page.blockedAt = 2
    /\ page.clicksOK = 1
    /\ page.pending = {}
    /\ page.opens[0] = 2 /\ page.opens[1] = 2
    /\ \A i \in 2 .. LastIdx : page.opens[i] = 1

----------------------------------------------------------------------------
(* Artifact assembler: html_for_route, index_html_exact, and the file map  *)
(* main() builds (lines 426-448)                                           *)

WindowSpan == 12

\* html.escape
EscapeChar(c) ==
    IF c = "&" THEN <<"&", "a", "m", "p", ";">>
    ELSE IF c = "<" THEN <<"&", "l", "t", ";">>
    ELSE IF c = ">" THEN <<"&", "g", "t", ";">>
    ELSE IF c = "\"" THEN <<"&", "q", "u", "o", "t", ";">>
    ELSE IF c = "'" THEN <<"&", "#", "x", "2", "7", ";">>
    ELSE <<c>>

RECURSIVE html_escape(_)
html_escape(s) ==
    IF s = <<>> THEN <<>> ELSE EscapeChar(Head(s)) \o html_escape(Tail(s))

DotHtml == <<".", "h", "t", "m", "l">>
IndexPath == <<"i", "n", "d", "e", "x">> \o DotHtml
\* kept as one piece: "/" keeps it apart from every page path
STATE_PATH == <<".run-state/last_success.json">>

\* f"{safe_name(r)}.html" (TARGET_DIR is "")
PagePath(r) == safe_name(r) \o DotHtml

html_for_route(route, start_date, end_date, today_for_weekend) ==
    LET plan == open_plan_for_route(route, start_date, end_date, today_for_weekend)
    IN  [ kind |-> "page",
          route_esc |-> html_escape(route),
          labels |-> [k \in 1 .. Len(plan) |-> plan[k].label],
          urls |-> [k \in 1 .. Len(plan) |-> plan[k].url],
          delays |-> PlanDelays(plan),
          range |-> <<FormatDate(start_date), FormatDate(end_date)>> ]

index_html_exact(routes, start_date, end_date, generated_at, range_hint) ==
    [ kind |-> "index",
      items |-> [k \in 1 .. Len(routes) |->
                    [href |-> PagePath(routes[k]), text |-> html_escape(routes[k])]],
      generated_at |-> generated_at,
      range |-> range_hint,
      total |-> Len(routes) ]

\* files_to_commit[path] = content
Put(files, path, content) ==
    [x \in DOMAIN files \cup {path} |-> IF x = path THEN content ELSE files[x]]

Empty == [x \in {} |-> Off]

\* the loop of lines 439-443
RECURSIVE RoutePages(_, _, _, _, _)
RoutePages(files, routes, k, start_dt, end_dt) ==
    IF k > Len(routes) THEN files
    ELSE RoutePages(Put(files, PagePath(routes[k]),
                        html_for_route(routes[k], start_dt, end_dt, start_dt)),
                    routes, k + 1, start_dt, end_dt)

\* lines 432-448: today_local is the date read at process start, now the
\* date at the time of the call.  The file map is a function of these three
\* values, and the state keeps it as them: see Built and Files.
BuildFiles(routes, today_local, now) ==
    LET start_dt == today_local
        end_dt == today_local + WindowSpan
        range_hint == <<FormatDate(start_dt), FormatDate(end_dt)>>
        pages == RoutePages(Empty, routes, 1, start_dt, end_dt)
        withIndex == Put(pages, IndexPath,
                         index_html_exact(routes, start_dt, end_dt,
                                          FormatDate(now), range_hint))
    IN  Put(withIndex, STATE_PATH,
            [kind |-> "state"] @@ success_state_payload(range_hint, now))

\* files_to_commit as the state holds it, and the file map it stands for
Built(routes, today_local, now) ==
    [routes |-> routes, today_local |-> today_local, now |-> now]

NoFiles == Built(<<>>, 0, 0)

Files(built) ==
    IF built = NoFiles THEN Empty
    ELSE BuildFiles(built.routes, built.today_local, built.now)

\* lines 426-430: the routes of routes.txt, or the error main() raises
RECURSIVE NonBlank(_)
NonBlank(lines) ==
    IF lines = <<>> THEN <<>>
    ELSE IF Strip(Head(lines)) # <<>>
         THEN <<Strip(Head(lines))>> \o NonBlank(Tail(lines))
         ELSE NonBlank(Tail(lines))

ToSet(seq) == {seq[k] : k \in 1 .. Len(seq)}

LoadRoutes(lines) ==
    LET routes == NonBlank(lines)
    IN  IF routes = <<>> THEN [error |-> "input", routes |-> routes]
        ELSE IF Len(routes) # Cardinality(ToSet(routes))
             THEN [error |-> "input", routes |-> routes]
        ELSE [error |-> None, routes |-> routes]

----------------------------------------------------------------------------
(* Spec: runs of main() against the remote store.  Two processes (two      *)
(* overlapping scheduled triggers) run main() concurrently, one HTTP       *)
(* request per step; a process that ended may run again.  A commit or tree *)
(* made by a run is named by the number of the run; commit 0 is the head   *)
(* of the source branch, NoRef a branch that does not exist.               *)

MainFirstDay == 151      \* 2024-05-31
MaxTicks == 1
MaxRuns == 2

Procs == {"p1", "p2"}

NoRef == -1
SourceHead == 0

RouteFiles ==
    { << <<"2", "4">>, <<"S", "L", "1", "0">> >>,
      << <<" ", "2", "4", " ">>, <<>>, <<"N", " ", "9">> >>,
      << <<"N", "/", "9">>, <<"N", " ", "9">> >>,
      << <<"i", "n", "d", "e", "x">>, <<"2", "4">> >>,
      << <<"2", "4">>, <<"2", "4", " ">> >>,
      << <<" ">> >> }

NoResponse == [kind |-> "exception", status_code |-> 0, body |-> NoBody]

\* A process: pc, the place in main(); run, the number of its run;
\* today_local, routes, files, out_head_sha, the variables of the program;
\* and what the run did: gate_day, the date at its gate check; gate_hit,
\* whether that check read a success marker dated gate_day; wrote, its
\* writes to the refs of the store; patch, the store's answer to its ref
\* update; patch_head, the branch head at that moment; rivals, the other
\* runs in flight at that moment; err, the kind of error it ended with.
IdleProc ==
    [ pc |-> "idle", run |-> 0, today_local |-> 0, routes |-> <<>>,
      files |-> NoFiles, out_head_sha |-> NoRef,
      gate_day |-> 0, gate_hit |-> FALSE,
      wrote |-> {}, patch |-> "none", patch_head |-> NoRef, rivals |-> {},
      err |-> None ]

InitMain(files, procsOn) ==
    /\ clock = MainFirstDay
    /\ remote \in [ routes_txt : files, ghpages : {NoRef},
                    trees : {Empty}, commits : {Empty} ]
    /\ procs = [p \in Procs |-> IF p \in procsOn THEN IdleProc
                                ELSE [IdleProc EXCEPT !.pc = "off"]]
    /\ started = 0
    /\ fn = Off
    /\ gate = Off
    /\ page = Off

\* two processes, the routes.txt of the repository
Init == InitMain({ << <<"2", "4">>, <<"S", "L", "1", "0">> >> }, Procs)

\* one process, every routes.txt of RouteFiles
InitSolo == InitMain(RouteFiles, {"p1"})

MainRest == <<fn, gate, page>>

Ended == {"idle", "skipped", "done", "error"}

\* the process exits: its memory is gone, what it did to the store stays;
\* err is the kind of error main() raised (section 7 of the specification:
\* "config", "input", "publish")
Exit(pr, pc, err) ==
    [pr EXCEPT !.pc = pc, !.err = err, !.today_local = 0, !.routes = <<>>,
               !.files = NoFiles, !.out_head_sha = NoRef]

\* midnight in Europe/London
Tick ==
    /\ clock < MainFirstDay + MaxTicks
    /\ clock' = clock + 1
    /\ UNCHANGED <<remote, procs, started, MainRest>>

\* lines 23-26 and 414: the module-level date, then detect_owner_repo()
StartRun(p) ==
    /\ procs[p].pc \in Ended
    /\ started < MaxRuns
    /\ started' = started + 1
    /\ LET pr == [IdleProc EXCEPT !.run = started + 1, !.today_local = clock]
       IN  \/ procs' = [procs EXCEPT ![p] = [pr EXCEPT !.pc = "gate"]]
           \/ procs' = [procs EXCEPT ![p] = Exit(pr, "error", "config")]
    /\ UNCHANGED <<clock, remote, MainRest>>

\* the files of the snapshot the output branch points at (none when the
\* branch is missing or is still the source branch's head)
Snapshot(rm) ==
    IF rm.ghpages \in {NoRef, SourceHead} THEN Empty
    ELSE Files(rm.trees[rm.commits[rm.ghpages].tree])

\* what raw.githubusercontent.com answers for STATE_PATH on the output branch
MarkerResponse(rm) ==
    LET files == Snapshot(rm)
    IN  IF STATE_PATH \notin DOMAIN files
        THEN [kind |-> "http", status_code |-> 404, body |-> NoBody]
        ELSE [ kind |-> "http", status_code |-> 200,
               body |-> [ json |-> "object", date |-> files[STATE_PATH].date,
                          status |-> files[STATE_PATH].status ] ]

\* the response carries a success marker dated `now`
MarkerOfToday(r, now) ==
    /\ r.kind = "http" /\ r.status_code \in 200 .. 299 /\ r.body.json = "object"
    /\ r.body.date = FormatDate(now)
    /\ r.body.status = "success"

\* main() going on whatever the gate says
main_after_gate_NeverSkip(skip) == "load"

\* lines 417-419
main_after_gate(skip) == IF skip THEN "skipped" ELSE "load"

\* line 417: already_succeeded_today; the fetch may fail
Gate(p) ==
    /\ procs[p].pc = "gate"
    /\ \E r \in {MarkerResponse(remote), NoResponse} :
         LET skip == already_succeeded_today(r, clock).value
             pr == [procs[p] EXCEPT !.gate_day = clock,
                                    !.gate_hit = MarkerOfToday(r, clock)]
             next == main_after_gate(skip)
         IN  procs' = [procs EXCEPT ![p] =
                          IF next = "skipped" THEN Exit(pr, next, None)
                          ELSE [pr EXCEPT !.pc = next]]
    /\ UNCHANGED <<clock, remote, started, MainRest>>

\* lines 422-430
Load(p) ==
    /\ procs[p].pc = "load"
    /\ \/ procs' = [procs EXCEPT ![p] = Exit(@, "error", "input")]
       \/ LET got == LoadRoutes(remote.routes_txt)
          IN  procs' = [procs EXCEPT ![p] =
                           IF got.error # None THEN Exit(@, "error", got.error)
                           ELSE [@ EXCEPT !.pc = "build", !.routes = got.routes]]
    /\ UNCHANGED <<clock, remote, started, MainRest>>

\* lines 432-463: the files, then the token
Build(p) ==
    /\ procs[p].pc = "build"
    /\ LET pr == [procs[p] EXCEPT
                    !.files = Built(procs[p].routes, procs[p].today_local, clock)]
       IN  \/ procs' = [procs EXCEPT ![p] = [pr EXCEPT !.pc = "ensure_get"]]
           \/ procs' = [procs EXCEPT ![p] = Exit(pr, "error", "config")]
    /\ UNCHANGED <<clock, remote, started, MainRest>>

\* lines 398-401: _get_ref_or_none on the output branch
EnsureGet(p) ==
    /\ procs[p].pc = "ensure_get"
    /\ \/ procs' = [procs EXCEPT ![p] = Exit(@, "error", "publish")]
       \/ procs' = [procs EXCEPT ![p] =
                       IF remote.ghpages = NoRef THEN [@ EXCEPT !.pc = "ensure_src"]
                       ELSE [@ EXCEPT !.pc = "tree", !.out_head_sha = remote.ghpages]]
    /\ UNCHANGED <<clock, remote, started, MainRest>>

\* lines 404-405: the head of the source branch
EnsureSrc(p) ==
    /\ procs[p].pc = "ensure_src"
    /\ \/ procs' = [procs EXCEPT ![p] = Exit(@, "error", "publish")]
       \/ procs' = [procs EXCEPT ![p] =
                       [@ EXCEPT !.pc = "ensure_post", !.out_head_sha = SourceHead]]
    /\ UNCHANGED <<clock, remote, started, MainRest>>

\* lines 407-411: POST git/refs creates the output branch; the store refuses
\* a reference that already exists
EnsurePost(p) ==
    /\ procs[p].pc = "ensure_post"
    /\ \/ /\ procs' = [procs EXCEPT ![p] = Exit(@, "error", "publish")]
          /\ UNCHANGED remote
       \/ /\ remote.ghpages = NoRef
          /\ remote' = [remote EXCEPT !.ghpages = procs[p].out_head_sha]
          /\ procs' = [procs EXCEPT ![p] =
                          [@ EXCEPT !.pc = "tree", !.wrote = @ \cup {"branch created"}]]
    /\ UNCHANGED <<clock, started, MainRest>>

\* lines 469-479: POST git/trees
Tree(p) ==
    /\ procs[p].pc = "tree"
    /\ \/ /\ procs' = [procs EXCEPT ![p] = Exit(@, "error", "publish")]
          /\ UNCHANGED remote
       \/ /\ remote' = [remote EXCEPT !.trees = Put(@, procs[p].run, procs[p].files)]
          /\ procs' = [procs EXCEPT ![p] = [@ EXCEPT !.pc = "commit"]]
    /\ UNCHANGED <<clock, started, MainRest>>

\* lines 482-487: POST git/commits, the parent being the head read before
Commit(p) ==
    /\ procs[p].pc = "commit"
    /\ \/ /\ procs' = [procs EXCEPT ![p] = Exit(@, "error", "publish")]
          /\ UNCHANGED remote
       \/ /\ remote' = [remote EXCEPT !.commits =
                           Put(@, procs[p].run,
                               [tree |-> procs[p].run, parent |-> procs[p].out_head_sha])]
          /\ procs' = [procs EXCEPT ![p] = [@ EXCEPT !.pc = "patch"]]
    /\ UNCHANGED <<clock, started, MainRest>>

\* the commits reachable from c by parent links, c included
RECURSIVE History(_, _)
History(commits, c) ==
    IF c \in {NoRef, SourceHead} THEN {c}
    ELSE {c} \cup History(commits, commits[c].parent)

\* "force": True: the store accepts every update
RefUpdateAccepted_Forced(commits, head, new) == TRUE

\* "force": False: the store accepts the update when it is a fast-forward
RefUpdateAccepted(commits, head, new) == head \in History(commits, new)

\* the runs that started and have not ended
InFlight == {"gate", "load", "build", "ensure_get", "ensure_src", "ensure_post",
             "tree", "commit", "patch"}

Rivals(p) == { procs[q].run : q \in {x \in Procs \ {p} : procs[x].pc \in InFlight} }

\* lines 490-495: PATCH git/refs/heads/<OUTPUT_BRANCH>, not forced; gh_req
\* raises on a refusal and main() ends
Patch(p) ==
    /\ procs[p].pc = "patch"
    /\ \/ /\ procs' = [procs EXCEPT ![p] = Exit(@, "error", "publish")]
          /\ UNCHANGED remote
       \/ LET pr == [procs[p] EXCEPT !.rivals = Rivals(p),
                                       !.patch_head = remote.ghpages]
          IN  IF RefUpdateAccepted(remote.commits, remote.ghpages, procs[p].run)
              THEN /\ remote' = [remote EXCEPT !.ghpages = procs[p].run]
                   /\ procs' = [procs EXCEPT ![p] =
                                   Exit([pr EXCEPT !.patch = "accepted",
                                                   !.wrote = @ \cup {"ref advanced"}],
                                        "done", None)]
              ELSE /\ procs' = [procs EXCEPT ![p] =
                                   Exit([pr EXCEPT !.patch = "refused"],
                                        "error", "publish")]
                   /\ UNCHANGED remote
    /\ UNCHANGED <<clock, started, MainRest>>

Next ==
    \/ Tick
    \/ \E p \in Procs :
         \/ StartRun(p) \/ Gate(p) \/ Load(p) \/ Build(p)
         \/ EnsureGet(p) \/ EnsureSrc(p) \/ EnsurePost(p)
         \/ Tree(p) \/ Commit(p) \/ Patch(p)

Spec == Init /\ [][Next]_vars

SpecSolo == InitSolo /\ [][Next]_vars

----------------------------------------------------------------------------
(* Claims about the runs                                                   *)

Published == remote.ghpages \notin {NoRef, SourceHead}

\* C3: a run whose gate check reads a success marker dated D while the
\* Europe/London date is D returns at the gate and writes nothing to the
\* store: no branch, no tree, no commit, no ref update.
C3_GateSkips ==
    \A p \in Procs :
        procs[p].gate_hit =>
            /\ procs[p].pc = "skipped"
            /\ procs[p].wrote = {}
            /\ procs[p].patch = "none"
            /\ procs[p].run \notin DOMAIN remote.trees
            /\ procs[p].run \notin DOMAIN remote.commits
            /\ remote.ghpages # procs[p].run

\* a run published a marker dated today and a later run skipped on it
C3_Witness ==
    \E p, q \in Procs :
        /\ procs[p].gate_hit /\ procs[p].pc = "skipped"
        /\ procs[q].pc = "done" /\ remote.ghpages = procs[q].run
        /\ procs[q].run < procs[p].run
        /\ Snapshot(remote)[STATE_PATH].date = FormatDate(procs[p].gate_day)

\* C5: a run that fails at a step of publishing leaves no change on the
\* refs of the store (with a single process: the branches and the output
\* branch's head are those from before the run).
C5_NoPartialChange ==
    \A p \in Procs :
        (procs[p].pc = "error" /\ procs[p].err = "publish") => procs[p].wrote = {}

\* two runs overlapped, passed the gate on the same day, and the store
\* answered the ref update of both
BothAttempted(p, q) ==
    /\ p # q
    /\ procs[p].patch # "none" /\ procs[q].patch # "none"
    /\ procs[p].gate_day = procs[q].gate_day
    /\ procs[q].run \in procs[p].rivals \/ procs[p].run \in procs[q].rivals

Parent(p) == remote.commits[procs[p].run].parent

\* C6 as stated: of two concurrent runs that both attempt the ref advance
\* exactly one succeeds, under every interleaving
C6_ExactlyOne ==
    \A p, q \in Procs :
        BothAttempted(p, q) =>
            (procs[p].patch = "accepted") # (procs[q].patch = "accepted")

\* C6, amended: a ref advance is refused exactly when the branch head is no
\* longer the head the run read; of two concurrent runs that read the same
\* head exactly one succeeds, and when one read the head the other had
\* advanced both succeed; a refused run ends with an error, has advanced
\* nothing, and every accepted commit stays in the history of the head.
C6_RefAdvance ==
    /\ \A p \in Procs :
          /\ procs[p].patch # "none" =>
                (procs[p].patch = "accepted") = (procs[p].patch_head = Parent(p))
          /\ procs[p].patch = "refused" =>
                /\ procs[p].pc = "error"
                /\ "ref advanced" \notin procs[p].wrote
                /\ remote.ghpages # procs[p].run
          /\ procs[p].patch = "accepted" =>
                procs[p].run \in History(remote.commits, remote.ghpages)
    /\ \A p, q \in Procs :
          BothAttempted(p, q) =>
             /\ Parent(p) = Parent(q) =>
                   (procs[p].patch = "accepted") # (procs[q].patch = "accepted")
             /\ Parent(q) = procs[p].run =>
                   procs[p].patch = "accepted" /\ procs[q].patch = "accepted"

\* both runs read the same head; one advance was accepted, the other refused
C6_Witness ==
    \E p, q \in Procs :
        /\ BothAttempted(p, q)
        /\ Parent(p) = Parent(q)
        /\ procs[p].patch = "accepted" /\ procs[q].patch = "refused"
        /\ procs[q].pc = "error" /\ remote.ghpages = procs[p].run

\* the routes the published snapshot was built from
PublishedRoutes == remote.trees[remote.commits[remote.ghpages].tree].routes
PublishedStart == remote.trees[remote.commits[remote.ghpages].tree].today_local

\* C7: the published snapshot holds, for each route r, the file
\* safe_name(r).html the index links to, embedding r's own plan, with
\* index.html the index page: len(routes) pages, the index and the marker.
C7_OnePagePerRoute ==
    Published =>
        LET files == Snapshot(remote)
            routes == PublishedRoutes
        IN  /\ \A k \in 1 .. Len(routes) :
                  LET path == files[IndexPath].items[k].href
                      plan == open_plan_for_route(routes[k], PublishedStart,
                                                  PublishedStart + WindowSpan,
                                                  PublishedStart)
                  IN  /\ path \in DOMAIN files
                      /\ files[path].kind = "page"
                      /\ files[path].route_esc = html_escape(routes[k])
                      /\ \A i \in 1 .. Len(plan) : files[path].urls[i] = plan[i].url
            /\ files[IndexPath].kind = "index"
            /\ Cardinality(DOMAIN files) = Len(routes) + 2

\* C10: in every published snapshot the marker's date is the first day of
\* the window the pages of that snapshot were generated for.
C10_MarkerIsWindowStart ==
    Published =>
        LET files == Snapshot(remote)
        IN  /\ files[STATE_PATH].date = files[STATE_PATH].range[1]
            /\ files[STATE_PATH].date = FormatDate(PublishedStart)

====
